---- MODULE Spec2Model ----
(***************************************************************************)
(* Model of src/vk/swap_chain.rs: VkSpawChain::create_swapchain and the    *)
(* selection helpers it calls (choose_swapchain_format,                    *)
(* choose_swapchain_present_mode, choose_swapchain_extent, the image count *)
(* and the sharing mode blocks), together with the platform calls it makes *)
(* (the three surface queries, vkCreateSwapchainKHR,                       *)
(* vkGetSwapchainImagesKHR).                                               *)
(*                                                                         *)
(* Option<T> is modelled as a sequence: <<>> is None, <<x>> is Some(x).    *)
(* A Result that is Err is modelled as <<>> as well; `.expect`/`.unwrap`   *)
(* on it panics, which ends the program (panic # NoPanic is terminal).     *)
(***************************************************************************)
EXTENDS Integers, Sequences, FiniteSets

VARIABLES
    swapchain_support,  \* Option: what query_swapchain_support returned in the last call
    queue_family,       \* the QueueFamilyIndices argument of the last call
    requested,          \* the size the caller wanted at the last call (no parameter carries it)
    surface_format,     \* Option: local `surface_format` of the last call
    present_mode,       \* Option: local `present_mode` of the last call
    extent,             \* Option: local `extent` of the last call
    image_count,        \* Option: local `image_count` of the last call
    sharing,            \* Option: local (image_sharing_mode, count, indices) of the last call
    create_info,        \* Option: the SwapchainCreateInfoKHR handed to the platform
    chain,              \* Option: the VkSpawChain value the last call returned
    platform,           \* swapchains alive on the platform: records [swapchain, images]
    owned,              \* swapchain handles held by a returned VkSpawChain value
    panic,              \* message of the panic that ended the program, or NoPanic
    calls,              \* number of create_swapchain calls made (the constructor runs once)
    overflow_checks,    \* build: arithmetic overflow panics (debug profile) or wraps
    clamp_asserts,      \* build: num::clamp's debug_assert!(min <= max) is compiled in
    window_constants    \* build: the values of global_constants::WINDOW_WIDTH / WINDOW_HEIGHT

vars == <<swapchain_support, queue_family, requested, surface_format, present_mode,
          extent, image_count, sharing, create_info, chain, platform, owned, panic,
          calls, overflow_checks, clamp_asserts, window_constants>>

\* ---------------------------------------------------------------- bounds
MaxLen == 3        \* longest format / present mode list the platform reports
MaxCount == 2      \* largest small image count the platform reports
MaxFamily == 2     \* largest queue family index
MaxImages == 2     \* most images the platform creates for one swapchain
WordBits == 16     \* width of the unsigned word standing for u32 (2^32 exceeds the checker's integers)

\* ---------------------------------------------------------------- constants
U32_MAX == 2^WordBits - 1     \* u32::max_value(), at the modelled width
WINDOW_WIDTH == window_constants.width      \* defined outside this file: any of WindowSizes
WINDOW_HEIGHT == window_constants.height

None == <<>>
Some(x) == <<x>>
NoPanic == ""

\* ---------------------------------------------------------------- helpers
\* num::clamp(input, min, max): debug_assert!(min <= max) when compiled in
clamp_upper_lost(input, min, max, asserts) ==
    IF asserts /\ min > max THEN None
    ELSE IF input < min THEN Some(min)
    ELSE Some(input)

clamp(input, min, max, asserts) ==
    IF asserts /\ min > max THEN None
    ELSE IF input < min THEN Some(min)
    ELSE IF input > max THEN Some(max)
    ELSE Some(input)

IsPreferredFormat(f) ==
    f.format = "B8G8R8A8_SRGB" /\ f.color_space = "SRGB_NONLINEAR"

RECURSIVE format_loop(_, _)
format_loop(available_formats, i) ==
    IF i > Len(available_formats) THEN None
    ELSE IF IsPreferredFormat(available_formats[i]) THEN Some(available_formats[i])
    ELSE format_loop(available_formats, i + 1)

\* the loop compares the format only and forgets the colour space
choose_swapchain_format_any_space(available_formats) ==
    LET hits == {i \in 1..Len(available_formats) :
                    available_formats[i].format = "B8G8R8A8_SRGB"}
    IN  IF hits # {} THEN Some(available_formats[CHOOSE i \in hits : \A j \in hits : i <= j])
        ELSE IF Len(available_formats) = 0 THEN None
        ELSE Some(available_formats[1])

choose_swapchain_format(available_formats) ==
    LET found == format_loop(available_formats, 1)
    IN  IF found # None THEN found
        ELSE IF Len(available_formats) = 0 THEN None   \* first().unwrap() panics
        ELSE Some(available_formats[1])

RECURSIVE present_mode_loop(_, _)
present_mode_loop(present_modes, i) ==
    IF i > Len(present_modes) THEN None
    ELSE IF present_modes[i] = "MAILBOX" THEN Some(present_modes[i])
    ELSE present_mode_loop(present_modes, i + 1)

\* the loop is skipped: always the first mode
choose_swapchain_present_mode_first(present_modes) ==
    IF Len(present_modes) = 0 THEN None ELSE Some(present_modes[1])

choose_swapchain_present_mode(present_modes) ==
    LET found == present_mode_loop(present_modes, 1)
    IN  IF found # None THEN found
        ELSE IF Len(present_modes) = 0 THEN None       \* first().unwrap() panics
        ELSE Some(present_modes[1])

ClampedExtent(capabilities, asserts) ==
    LET w == clamp(WINDOW_WIDTH, capabilities.min_image_extent.width,
                   capabilities.max_image_extent.width, asserts)
        h == clamp(WINDOW_HEIGHT, capabilities.min_image_extent.height,
                   capabilities.max_image_extent.height, asserts)
    IN  IF w = None \/ h = None THEN None
        ELSE Some([width |-> w[1], height |-> h[1]])

\* `&&` in place of `||`: a half-sentinel current_extent takes the clamp branch
choose_swapchain_extent_and(capabilities, asserts) ==
    IF capabilities.current_extent.width # U32_MAX
       /\ capabilities.current_extent.height # U32_MAX
    THEN Some(capabilities.current_extent)
    ELSE ClampedExtent(capabilities, asserts)

choose_swapchain_extent(capabilities, asserts) ==
    IF capabilities.current_extent.width # U32_MAX
       \/ capabilities.current_extent.height # U32_MAX
    THEN Some(capabilities.current_extent)
    ELSE ClampedExtent(capabilities, asserts)

\* u32 addition: panics with overflow checks, wraps without
add_u32(a, b, checks) ==
    IF a + b > U32_MAX
    THEN IF checks THEN None ELSE Some((a + b) % (U32_MAX + 1))
    ELSE Some(a + b)

\* the clamp to max_image_count is left out
choose_image_count_unclamped(capabilities, checks) ==
    add_u32(capabilities.min_image_count, 1, checks)

\* `max` in place of `min`
choose_image_count_max(capabilities, checks) ==
    LET sum == add_u32(capabilities.min_image_count, 1, checks)
    IN  IF sum = None THEN None
        ELSE IF capabilities.max_image_count > 0
        THEN Some(IF sum[1] > capabilities.max_image_count
                  THEN sum[1] ELSE capabilities.max_image_count)
        ELSE sum

choose_image_count(capabilities, checks) ==
    LET sum == add_u32(capabilities.min_image_count, 1, checks)
    IN  IF sum = None THEN None
        ELSE IF capabilities.max_image_count > 0
        THEN Some(IF sum[1] < capabilities.max_image_count
                  THEN sum[1] ELSE capabilities.max_image_count)
        ELSE sum

\* `==` in place of `!=`
choose_sharing_mode_swapped(qf) ==
    IF qf.graphics_family = qf.present_family
    THEN IF qf.graphics_family = None \/ qf.present_family = None
         THEN None
         ELSE Some([image_sharing_mode |-> "CONCURRENT",
                    queue_family_index_count |-> 2,
                    queue_family_indices |->
                        <<qf.graphics_family[1], qf.present_family[1]>>])
    ELSE Some([image_sharing_mode |-> "EXCLUSIVE",
               queue_family_index_count |-> 0,
               queue_family_indices |-> <<>>])

choose_sharing_mode(qf) ==
    IF qf.graphics_family # qf.present_family
    THEN IF qf.graphics_family = None \/ qf.present_family = None
         THEN None                                     \* unwrap() on None panics
         ELSE Some([image_sharing_mode |-> "CONCURRENT",
                    queue_family_index_count |-> 2,
                    queue_family_indices |->
                        <<qf.graphics_family[1], qf.present_family[1]>>])
    ELSE Some([image_sharing_mode |-> "EXCLUSIVE",
               queue_family_index_count |-> 0,
               queue_family_indices |-> <<>>])

SwapchainCreateInfoKHR(fmt, pm, ext, cnt, shr, capabilities) ==
    [min_image_count |-> cnt,
     image_color_space |-> fmt.color_space,
     image_format |-> fmt.format,
     image_extent |-> ext,
     image_usage |-> "COLOR_ATTACHMENT",
     image_sharing_mode |-> shr.image_sharing_mode,
     queue_family_indices |-> shr.queue_family_indices,
     queue_family_index_count |-> shr.queue_family_index_count,
     pre_transform |-> capabilities.current_transform,
     composite_alpha |-> "OPAQUE",
     present_mode |-> pm,
     clipped |-> TRUE,
     old_swapchain |-> None,
     image_array_layers |-> 1]

VkSpawChain(swapchain, fmt, ext, images) ==
    [swapchain |-> swapchain,
     swapchain_format |-> fmt.format,
     swapchain_extent |-> ext,
     swapchain_images |-> images]

\* ---------------------------------------------------------------- inputs
Extent2D(w, h) == [width |-> w, height |-> h]

FormatOptions ==
    [format : {"B8G8R8A8_SRGB", "R8G8B8A8_UNORM"},
     color_space : {"SRGB_NONLINEAR", "EXTENDED_SRGB_LINEAR_EXT"}]

PresentModeOptions == {"IMMEDIATE", "MAILBOX", "FIFO", "FIFO_RELAXED"}

SeqsUpTo(S, n) == UNION {[1..k -> S] : k \in 0..n}

CountValues == (0..MaxCount) \cup {U32_MAX - 1, U32_MAX}

Capabilities ==
    [min_image_count : CountValues,
     max_image_count : CountValues,
     current_extent : {Extent2D(w, h) : w \in {700, U32_MAX}, h \in {500, U32_MAX}},
     min_image_extent : {Extent2D(w, h) : w \in {1, 1024}, h \in {1, 768}},
     max_image_extent : {Extent2D(w, h) : w \in {640, 4096}, h \in {480, 4096}},
     current_transform : {"IDENTITY"}]

FamilyOptions == {None} \cup {Some(i) : i \in 0..MaxFamily}

QueueFamilies == [graphics_family : FamilyOptions, present_family : FamilyOptions]

RequestedSizes == {Extent2D(800, 600), Extent2D(1024, 768)}

\* values the window constants of the build may have
WindowSizes == {Extent2D(800, 600), Extent2D(1280, 720)}

\* what the platform does with the call: a failed step makes the later ones moot
PlatformResults ==
    {[query_ok |-> FALSE, alloc_ok |-> FALSE, images_ok |-> FALSE, n |-> 1],
     [query_ok |-> TRUE, alloc_ok |-> FALSE, images_ok |-> FALSE, n |-> 1]}
    \cup [query_ok : {TRUE}, alloc_ok : {TRUE}, images_ok : BOOLEAN, n : 1..MaxImages]

\* the end-to-end scenario of the specification, the point the slices go through
DefaultCapabilities ==
    [min_image_count |-> 2, max_image_count |-> 0,
     current_extent |-> Extent2D(U32_MAX, U32_MAX),
     min_image_extent |-> Extent2D(1, 1),
     max_image_extent |-> Extent2D(4096, 4096),
     current_transform |-> "IDENTITY"]

DefaultFormats ==
    <<[format |-> "R8G8B8A8_UNORM", color_space |-> "SRGB_NONLINEAR"],
      [format |-> "B8G8R8A8_SRGB", color_space |-> "SRGB_NONLINEAR"]>>

DefaultPresentModes == <<"FIFO", "MAILBOX">>

DefaultQueueFamilies == [graphics_family |-> Some(0), present_family |-> Some(1)]

DefaultRequested == Extent2D(800, 600)

Input(caps, formats, modes, qf, req) ==
    [capabilities |-> caps, formats |-> formats, present_modes |-> modes,
     queue_family |-> qf, requested |-> req]

\* every input group varies over its whole set while the others stay at the default
Inputs ==
    {Input(c, DefaultFormats, DefaultPresentModes, DefaultQueueFamilies, r) :
        c \in Capabilities, r \in RequestedSizes}
    \cup {Input(DefaultCapabilities, f, DefaultPresentModes, DefaultQueueFamilies,
                DefaultRequested) : f \in SeqsUpTo(FormatOptions, MaxLen)}
    \cup {Input(DefaultCapabilities, DefaultFormats, m, DefaultQueueFamilies,
                DefaultRequested) : m \in SeqsUpTo(PresentModeOptions, MaxLen)}
    \cup {Input(DefaultCapabilities, DefaultFormats, DefaultPresentModes, q,
                DefaultRequested) : q \in QueueFamilies}

\* ---------------------------------------------------------------- operations
SwapChainSupportDetail(in) ==
    [capabilities |-> in.capabilities, formats |-> in.formats,
     present_modes |-> in.present_modes]

\* query_swapchain_support: three queries, each `.expect`ed
query_swapchain_support(in, query_ok) ==
    IF query_ok THEN Some(SwapChainSupportDetail(in)) ELSE None

\* in: what the caller passes and the platform reports; query_ok, alloc_ok,
\* images_ok: whether the queries, vkCreateSwapchainKHR and
\* vkGetSwapchainImagesKHR succeed; n: the number of images the platform makes
create_swapchain(in, query_ok, alloc_ok, images_ok, n) ==
    LET sup == query_swapchain_support(in, query_ok)
        fmt == IF sup = None THEN None ELSE choose_swapchain_format(sup[1].formats)
        pm  == IF fmt = None THEN None
               ELSE choose_swapchain_present_mode(sup[1].present_modes)
        ext == IF pm = None THEN None
               ELSE choose_swapchain_extent(sup[1].capabilities, clamp_asserts)
        cnt == IF ext = None THEN None
               ELSE choose_image_count(sup[1].capabilities, overflow_checks)
        shr == IF cnt = None THEN None ELSE choose_sharing_mode(in.queue_family)
        info == IF shr = None THEN None
                ELSE Some(SwapchainCreateInfoKHR(fmt[1], pm[1], ext[1], cnt[1], shr[1],
                                                 sup[1].capabilities))
        handle == calls + 1
        allocated == info # None /\ alloc_ok
        made == [i \in 1..n |-> i]
        imgs == IF allocated /\ images_ok THEN Some(made) ELSE None
    IN  /\ calls' = calls + 1
        /\ swapchain_support' = sup
        /\ queue_family' = in.queue_family
        /\ requested' = in.requested
        /\ surface_format' = fmt
        /\ present_mode' = pm
        /\ extent' = ext
        /\ image_count' = cnt
        /\ sharing' = shr
        /\ create_info' = info
        /\ platform' = IF allocated
                       THEN platform \cup {[swapchain |-> handle, images |-> made]}
                       ELSE platform
        /\ chain' = IF imgs = None THEN None
                    ELSE Some(VkSpawChain(handle, fmt[1], ext[1], imgs[1]))
        /\ owned' = IF imgs = None THEN owned ELSE owned \cup {handle}
        /\ panic' = IF sup = None THEN "Failed to get physical device surface capabilities"
                    ELSE IF fmt = None THEN "unwrap on None: available_formats.first()"
                    ELSE IF pm = None THEN "unwrap on None: present_modes.first()"
                    ELSE IF ext = None THEN "min must be less than or equal to max"
                    ELSE IF cnt = None THEN "attempt to add with overflow"
                    ELSE IF shr = None THEN "unwrap on None: queue family"
                    ELSE IF ~alloc_ok THEN "Failed to create Swapchain!"
                    ELSE IF ~images_ok THEN "Failed to get Swapchain Images."
                    ELSE NoPanic
        /\ UNCHANGED <<overflow_checks, clamp_asserts, window_constants>>

Init ==
    /\ swapchain_support = None
    /\ queue_family = DefaultQueueFamilies
    /\ requested = DefaultRequested
    /\ surface_format = None
    /\ present_mode = None
    /\ extent = None
    /\ image_count = None
    /\ sharing = None
    /\ create_info = None
    /\ chain = None
    /\ platform = {}
    /\ owned = {}
    /\ panic = NoPanic
    /\ calls = 0
    /\ overflow_checks \in BOOLEAN
    /\ clamp_asserts \in BOOLEAN
    /\ clamp_asserts => overflow_checks
    /\ window_constants \in WindowSizes

\* the program constructs its swapchain once; a panic ends it
Next ==
    /\ calls = 0
    /\ panic = NoPanic
    /\ \E in \in Inputs, r \in PlatformResults :
        create_swapchain(in, r.query_ok, r.alloc_ok, r.images_ok, r.n)

Spec == Init /\ [][Next]_vars

\* ---------------------------------------------------------------- properties
Caps == swapchain_support[1].capabilities

IsSentinel(c) == c.current_extent.width = U32_MAX /\ c.current_extent.height = U32_MAX

BoundsOrdered(c) ==
    /\ c.min_image_extent.width <= c.max_image_extent.width
    /\ c.min_image_extent.height <= c.max_image_extent.height

Lower(a, b) == IF a < b THEN a ELSE b
Higher(a, b) == IF a > b THEN a ELSE b

\* saturating min/max composition, for lo <= hi
Saturate(x, lo, hi) == Higher(lo, Lower(x, hi))

SaturatedExtent(size, c) ==
    Extent2D(Saturate(size.width, c.min_image_extent.width, c.max_image_extent.width),
             Saturate(size.height, c.min_image_extent.height, c.max_image_extent.height))

WithinExtentBounds(e, c) ==
    /\ c.min_image_extent.width <= e.width /\ e.width <= c.max_image_extent.width
    /\ c.min_image_extent.height <= e.height /\ e.height <= c.max_image_extent.height

C2_CurrentExtentVerbatim ==
    (present_mode # None /\ ~IsSentinel(Caps))
        => extent = Some(Caps.current_extent)

C2_Witness ==
    /\ calls = 1 /\ present_mode # None
    /\ Caps.current_extent = Extent2D(U32_MAX, 500)
    /\ Caps.min_image_extent = Extent2D(1024, 768)
    /\ requested = Extent2D(1024, 768)
    /\ extent = Some(Extent2D(U32_MAX, 500))

\* C3 (as stated): the image count is never below min_image_count + 1, never
\* above a nonzero max_image_count, and exactly min_image_count + 1 when
\* max_image_count is 0.
C3_NeverBelowMinPlusOne ==
    image_count # None =>
        /\ image_count[1] >= Caps.min_image_count + 1
        /\ Caps.max_image_count > 0 => image_count[1] <= Caps.max_image_count
        /\ Caps.max_image_count = 0 => image_count[1] = Caps.min_image_count + 1

\* C3 (amended): the image count never exceeds min_image_count + 1 nor a
\* nonzero max_image_count; for min_image_count < u32::MAX it is
\* min_image_count + 1 when max_image_count is 0 or above min_image_count and
\* max_image_count when 0 < max_image_count <= min_image_count; at
\* min_image_count = u32::MAX the sum overflows: a panic with overflow checks,
\* a count of 0 without.
C3_MinPlusOneCappedByMax ==
    /\ image_count # None =>
        /\ image_count[1] <= Caps.min_image_count + 1
        /\ Caps.max_image_count > 0 => image_count[1] <= Caps.max_image_count
        /\ (Caps.min_image_count < U32_MAX
            /\ (Caps.max_image_count = 0 \/ Caps.max_image_count > Caps.min_image_count))
           => image_count[1] = Caps.min_image_count + 1
        /\ (Caps.min_image_count < U32_MAX
            /\ 0 < Caps.max_image_count /\ Caps.max_image_count <= Caps.min_image_count)
           => image_count[1] = Caps.max_image_count
        /\ Caps.min_image_count = U32_MAX => (image_count[1] = 0 /\ ~overflow_checks)
    /\ (extent # None /\ image_count = None)
        => (Caps.min_image_count = U32_MAX /\ overflow_checks
            /\ panic = "attempt to add with overflow")

C3_Witness ==
    /\ calls = 1 /\ image_count = Some(2)
    /\ Caps.min_image_count = 2 /\ Caps.max_image_count = 2

\* C4 (as stated): every configuration handed to the platform has its image
\* count in [min_image_count, max_image_count] unless max_image_count is 0,
\* and its extent in [min_image_extent, max_image_extent] on both axes.
C4_ConfigWithinLimits ==
    create_info # None =>
        /\ Caps.max_image_count > 0 =>
            /\ Caps.min_image_count <= create_info[1].min_image_count
            /\ create_info[1].min_image_count <= Caps.max_image_count
        /\ WithinExtentBounds(create_info[1].image_extent, Caps)

\* C4 (amended): the image count of a configuration handed to the platform is
\* in [min_image_count, max_image_count] when 0 < max_image_count,
\* min_image_count <= max_image_count and min_image_count < u32::MAX; its
\* extent is within the extent bounds when current_extent is the sentinel and
\* the bounds are ordered; with any other current_extent the extent is
\* current_extent itself, inside the bounds or not.
C4_ConfigWithinLimitsWhenReported ==
    create_info # None =>
        /\ (Caps.max_image_count > 0 /\ Caps.min_image_count <= Caps.max_image_count
            /\ Caps.min_image_count < U32_MAX) =>
            /\ Caps.min_image_count <= create_info[1].min_image_count
            /\ create_info[1].min_image_count <= Caps.max_image_count
        /\ (IsSentinel(Caps) /\ BoundsOrdered(Caps))
            => WithinExtentBounds(create_info[1].image_extent, Caps)
        /\ ~IsSentinel(Caps) => create_info[1].image_extent = Caps.current_extent

C4_Witness ==
    /\ create_info # None
    /\ IsSentinel(Caps)
    /\ Caps.min_image_extent = Extent2D(1024, 768)
    /\ Caps.max_image_extent = Extent2D(4096, 4096)
    /\ create_info[1].image_extent = Extent2D(1024, 768)
    /\ Caps.min_image_count = 1 /\ Caps.max_image_count = 2
    /\ create_info[1].min_image_count = 2

\* C5: whenever a sharing mode is chosen it is CONCURRENT with the indices
\* [graphics, present] and index count 2 exactly when the two queue family
\* indices differ, and EXCLUSIVE with no indices and index count 0 otherwise;
\* the configuration handed to the platform carries that choice.
C5_SharingMode ==
    /\ sharing # None =>
        IF queue_family.graphics_family # queue_family.present_family
        THEN /\ sharing[1].image_sharing_mode = "CONCURRENT"
             /\ sharing[1].queue_family_index_count = 2
             /\ sharing[1].queue_family_indices =
                    queue_family.graphics_family \o queue_family.present_family
             /\ Len(sharing[1].queue_family_indices) = 2
        ELSE /\ sharing[1].image_sharing_mode = "EXCLUSIVE"
             /\ sharing[1].queue_family_index_count = 0
             /\ sharing[1].queue_family_indices = <<>>
    /\ create_info # None =>
        /\ create_info[1].image_sharing_mode = sharing[1].image_sharing_mode
        /\ create_info[1].queue_family_index_count = sharing[1].queue_family_index_count
        /\ create_info[1].queue_family_indices = sharing[1].queue_family_indices

C5_Witness ==
    /\ create_info # None
    /\ queue_family = [graphics_family |-> Some(2), present_family |-> Some(0)]
    /\ create_info[1].image_sharing_mode = "CONCURRENT"
    /\ create_info[1].queue_family_indices = <<2, 0>>

PreferredFormat == [format |-> "B8G8R8A8_SRGB", color_space |-> "SRGB_NONLINEAR"]

Contains(list, x) == \E i \in 1..Len(list) : list[i] = x

\* C6: from a non-empty format list the chosen format is the
\* (B8G8R8A8_SRGB, SRGB_NONLINEAR) pair when the list holds it at any
\* position, and the first element of the list otherwise.
C6_ChooseFormat ==
    (swapchain_support # None /\ Len(swapchain_support[1].formats) > 0) =>
        IF Contains(swapchain_support[1].formats, PreferredFormat)
        THEN surface_format = Some(PreferredFormat)
        ELSE surface_format = Some(swapchain_support[1].formats[1])

C6_Witness ==
    /\ swapchain_support # None
    /\ Len(swapchain_support[1].formats) = 3
    /\ swapchain_support[1].formats[1] =
           [format |-> "B8G8R8A8_SRGB", color_space |-> "EXTENDED_SRGB_LINEAR_EXT"]
    /\ swapchain_support[1].formats[3] = PreferredFormat
    /\ surface_format = Some(PreferredFormat)

\* C7: from a non-empty present mode list the chosen mode is MAILBOX when the
\* list holds it at any position, and the first element of the list otherwise.
C7_ChoosePresentMode ==
    (surface_format # None /\ Len(swapchain_support[1].present_modes) > 0) =>
        IF Contains(swapchain_support[1].present_modes, "MAILBOX")
        THEN present_mode = Some("MAILBOX")
        ELSE present_mode = Some(swapchain_support[1].present_modes[1])

C7_Witness ==
    /\ surface_format # None
    /\ swapchain_support[1].present_modes = <<"FIFO", "IMMEDIATE", "MAILBOX">>
    /\ present_mode = Some("MAILBOX")

\* C8 (as stated): a call with the graphics or the presentation queue family
\* index absent ends in an error and hands no configuration to the platform.
C8_AbsentIndexIsRefused ==
    (calls = 1 /\ (queue_family.graphics_family = None
                   \/ queue_family.present_family = None))
        => (panic # NoPanic /\ create_info = None)

AllocatedHandles == {s.swapchain : s \in platform}

BothIndicesPresent ==
    queue_family.graphics_family # None /\ queue_family.present_family # None

\* C9 (as stated, for calls that pass both queue family indices): a failed
\* call leaves no VkSpawChain value and no platform swapchain without an
\* owner; a VkSpawChain value exists only when the allocation and the image
\* retrieval both succeeded.
C9_CreateIsAtomic ==
    /\ (panic # NoPanic /\ BothIndicesPresent)
        => (chain = None /\ AllocatedHandles \subseteq owned)
    /\ chain # None =>
        /\ panic = NoPanic
        /\ [swapchain |-> chain[1].swapchain, images |-> chain[1].swapchain_images]
               \in platform
        /\ Len(chain[1].swapchain_images) > 0

====
